---------------------------- MODULE Spec2Model ----------------------------
(***************************************************************************)
(* BGPCommunityParser (commparser.py): a registry of community definitions *)
(* loaded from documents, and the lookup of a community string in it.      *)
(*                                                                         *)
(* A Python str is a sequence of one-character strings.  A dict is a       *)
(* record; `"k" in d` is "k" \in DOMAIN d.  A stored field pattern is the  *)
(* record [caret, atoms, dollar]: the regular expression                   *)
(* "^"? atom* "$"?, where an atom [cls, n, many] is a character class      *)
(* repeated exactly n times (many = FALSE) or n or more times.             *)
(***************************************************************************)
EXTENDS Integers, Sequences, FiniteSets, TLC

(* ------------------------------------------------------------------ *)
(* Characters and Python built-ins                                     *)
(* ------------------------------------------------------------------ *)

NL == "\n"

Digit == {"0", "1", "2", "3", "4", "5", "6", "7", "8", "9"}

HexDigit == Digit \cup {"a", "b", "c", "d", "e", "f", "A", "B", "C", "D", "E", "F"}

DigitVal ==
    "0" :> 0 @@ "1" :> 1 @@ "2" :> 2 @@ "3" :> 3 @@ "4" :> 4 @@
    "5" :> 5 @@ "6" :> 6 @@ "7" :> 7 @@ "8" :> 8 @@ "9" :> 9

HexVal ==
    DigitVal @@ "a" :> 10 @@ "b" :> 11 @@ "c" :> 12 @@ "d" :> 13 @@
    "e" :> 14 @@ "f" :> 15 @@ "A" :> 10 @@ "B" :> 11 @@ "C" :> 12 @@
    "D" :> 13 @@ "E" :> 14 @@ "F" :> 15

DigitChar == <<"0", "1", "2", "3", "4", "5", "6", "7", "8", "9">>

Min(a, b) == IF a < b THEN a ELSE b

\* s[a:b] for 0 <= a <= b: clamped to the string, never an error
Slice(s, a, b) ==
    IF a >= Len(s) \/ b <= a THEN <<>> ELSE SubSeq(s, a + 1, Min(b, Len(s)))

\* s[a:]
SliceFrom(s, a) == Slice(s, a, Len(s))

\* sep.join(parts)
RECURSIVE Join(_, _)
Join(parts, sep) ==
    IF parts = <<>> THEN <<>>
    ELSE IF Len(parts) = 1 THEN parts[1]
    ELSE parts[1] \o sep \o Join(Tail(parts), sep)

\* str(n) for an int n >= 0
RECURSIVE Str(_)
Str(n) == IF n < 10 THEN <<DigitChar[n + 1]>> ELSE Str(n \div 10) \o <<DigitChar[(n % 10) + 1]>>

\* s.split(":", maxsplit): at most maxsplit cuts, at the leftmost colons
RECURSIVE Split(_, _)
Split(s, maxsplit) ==
    LET colons == {i \in 1..Len(s) : s[i] = ":"} IN
    IF maxsplit = 0 \/ colons = {} THEN <<s>>
    ELSE LET i == CHOOSE c \in colons : \A d \in colons : c <= d IN
         <<SubSeq(s, 1, i - 1)>> \o Split(SubSeq(s, i + 1, Len(s)), maxsplit - 1)

\* int() strips surrounding whitespace; the only whitespace here is the newline
RECURSIVE Strip(_)
Strip(s) ==
    IF s # <<>> /\ s[Len(s)] = NL THEN Strip(SubSeq(s, 1, Len(s) - 1))
    ELSE IF s # <<>> /\ s[1] = NL THEN Strip(Tail(s))
    ELSE s

\* a non-empty string of characters of cls
AllIn(t, cls) == t # <<>> /\ \A i \in 1..Len(t) : t[i] \in cls

\* sys.int_info.default_max_str_digits of CPython 3.11 (and of the security
\* releases of 3.7 to 3.10): int() of a longer decimal string is a ValueError
MaxStrDigits == 4300

\* int(s) succeeds (base 10): otherwise ValueError
IsDecimal(s) == AllIn(Strip(s), Digit) /\ Len(Strip(s)) <= MaxStrDigits

\* t without an 0x prefix
Unprefixed(t) ==
    IF Len(t) >= 2 /\ t[1] = "0" /\ t[2] \in {"x", "X"} THEN SubSeq(t, 3, Len(t)) ELSE t

\* the digits of int(s, 16): an optional 0x prefix is dropped
HexBody(s) == Unprefixed(Strip(s))

\* int(s, 16) succeeds
IsHex(s) == AllIn(HexBody(s), HexDigit)

RECURSIVE HexNum(_)
HexNum(h) == IF h = <<>> THEN 0 ELSE 16 * HexNum(SubSeq(h, 1, Len(h) - 1)) + HexVal[h[Len(h)]]

\* int(s, 16)
HexInt(s) == HexNum(HexBody(s))

(* int(decimal) is an unbounded integer: the conversion to binary digits   *)
(* is done on the decimal digit string, by repeated halving.               *)

\* the decimal digit string d halved, digit by digit: the carry into a digit
\* is the parity of the digit before it
Halve(d) ==
    [i \in 1..Len(d) |->
        DigitChar[((IF i = 1 THEN 0 ELSE 10 * (DigitVal[d[i - 1]] % 2))
                   + DigitVal[d[i]]) \div 2 + 1]]

IsZero(d) == \A i \in 1..Len(d) : d[i] = "0"

\* the binary digits of the decimal digit string d, most significant first;
\* a leading zero of the quotient is dropped as it appears
RECURSIVE Bin(_)
Bin(d) ==
    IF IsZero(d) THEN <<>>
    ELSE IF d[1] = "0" THEN Bin(Tail(d))
    ELSE Bin(Halve(d)) \o <<DigitChar[(DigitVal[d[Len(d)]] % 2) + 1]>>

\* format(n, "b") of int(d): "0" for zero
BinStr(d) == IF IsZero(d) THEN <<"0">> ELSE Bin(d)

Zeros(n) == [i \in 1..n |-> "0"]


(* ------------------------------------------------------------------ *)
(* BitCodec and FieldMatcher                                           *)
(* ------------------------------------------------------------------ *)

\* _decimal2bits: f"{int(decimal):0{length}b}", padded to length, never truncated
decimal2bits(decimal, length) ==
    LET b == BinStr(Strip(decimal)) IN
    IF Len(b) >= length THEN b ELSE Zeros(length - Len(b)) \o b

\* "format" in part and part["format"] == "binary"
is_binary(part) == "format" \in DOMAIN part /\ part.format = "binary"

\* re.match(pattern, value): anchored at the start; "$" is the end of the
\* string or the place before a final newline; no class here holds the
\* newline.  The offsets an atom can end at are computed atom by atom.
re_match(pattern, value) ==
    LET n == Len(value)
        AtEnd(j) == j = n \/ (j = n - 1 /\ value[n] = NL)
        \* the first place after offset j that is not of cls, n + 1 if none
        Stop(cls, j) ==
            LET others == {t \in (j + 1)..n : value[t] \notin cls} IN
            IF others = {} THEN n + 1
            ELSE CHOOSE t \in others : \A u \in others : t <= u
        \* the offsets atom a can end at when it starts at offset j
        Ends(a, j) ==
            IF a.many THEN (j + a.n)..(Stop(a.cls, j) - 1)
            ELSE IF j + a.n <= n /\ \A u \in (j + 1)..(j + a.n) : value[u] \in a.cls
                 THEN {j + a.n} ELSE {}
        RECURSIVE M(_, _)
        M(i, offsets) ==
            IF offsets = {} THEN FALSE
            ELSE IF i > Len(pattern.atoms)
            THEN (IF pattern.dollar THEN \E j \in offsets : AtEnd(j) ELSE TRUE)
            ELSE M(i + 1, UNION {Ends(pattern.atoms[i], j) : j \in offsets})
    IN M(1, {0})

\* the pattern with a leading "^" and a trailing "$" dropped, then "^{}$" around it
anchored(pattern) == [caret |-> TRUE, atoms |-> pattern.atoms, dollar |-> TRUE]

\* the string a field is tested against in _try_candidate_fields
field_value(content, pos, cfield) ==
    IF "length" \in DOMAIN cfield
    THEN Slice(content, pos, pos + cfield.length)
    ELSE content

\* one field passes its pattern
field_matches(content, pos, cfield) ==
    re_match(anchored(cfield.pattern), field_value(content, pos, cfield))

\* the cursor after a field
field_next_pos(pos, cfield) ==
    IF "length" \in DOMAIN cfield THEN pos + cfield.length ELSE pos

\* _try_candidate_fields
try_candidate_fields(content, cfields) ==
    LET RECURSIVE loop(_, _)
        loop(i, pos) ==
            IF i > Len(cfields) THEN TRUE
            ELSE IF ~field_matches(content, pos, cfields[i]) THEN FALSE
            ELSE loop(i + 1, field_next_pos(pos, cfields[i]))
    IN loop(1, 0)

\* the slices of contentbits, one per field (the loop of _candidate2fields)
slice_fields(contentbits, fields) ==
    LET RECURSIVE loop(_, _)
        loop(i, pos) ==
            IF i > Len(fields) THEN <<>>
            ELSE LET length == IF "length" \in DOMAIN fields[i]
                               THEN fields[i].length ELSE Len(contentbits)
                 IN <<Slice(contentbits, pos, pos + length)>> \o loop(i + 1, pos + length)
    IN loop(1, 0)

\* the string _candidate2fields slices
candidate2fields_bits(contentbits, clocaladmin) ==
    IF is_binary(clocaladmin) THEN decimal2bits(contentbits, 16) ELSE contentbits

\* _candidate2fields: fields[fid] is element fid + 1
candidate2fields(contentbits, clocaladmin) ==
    slice_fields(candidate2fields_bits(contentbits, clocaladmin), clocaladmin.fields)

\* the strings _candidate2fields_large slices
candidate2fields_large_bits(contentbits, clocaldatapart) ==
    IF is_binary(clocaldatapart) THEN decimal2bits(contentbits, 32) ELSE contentbits

\* _candidate2fields_large: part 2's values follow part 1's
candidate2fields_large(contentbits1, contentbits2, clocaldatapart1, clocaldatapart2) ==
    slice_fields(candidate2fields_large_bits(contentbits1, clocaldatapart1),
                 clocaldatapart1.fields)
    \o slice_fields(candidate2fields_large_bits(contentbits2, clocaldatapart2),
                    clocaldatapart2.fields)

(* ------------------------------------------------------------------ *)
(* CandidateSelector.  A selector's result is                          *)
(* [exc, found, matched]: the exception it raised ("" for none), the   *)
(* position in the list of the candidate it returned (0 for False) and *)
(* the strings on which that candidate's fields were matched.          *)
(* ------------------------------------------------------------------ *)

Selected(i, strings) == [exc |-> "", found |-> i, matched |-> strings]

NotSelected == [exc |-> "", found |-> 0, matched |-> <<>>]

Raised(e) == [exc |-> e, found |-> 0, matched |-> <<>>]

\* _try_candidates_regular: content is a local of the whole loop
try_candidates_regular(asn, content, candidates) ==
    LET RECURSIVE loop(_, _)
        loop(i, cont) ==
            IF i > Len(candidates) THEN NotSelected
            ELSE LET candidate == candidates[i] IN
                 IF asn # Str(candidate.globaladmin) THEN loop(i + 1, cont)
                 ELSE IF is_binary(candidate.localadmin) /\ ~IsDecimal(cont)
                 THEN Raised("ValueError")
                 ELSE LET c2 == IF is_binary(candidate.localadmin)
                                THEN decimal2bits(cont, 16) ELSE cont
                      IN IF try_candidate_fields(c2, candidate.localadmin.fields)
                         THEN Selected(i, <<c2>>)
                         ELSE loop(i + 1, c2)
    IN loop(1, content)

\* _try_candidates_large: content1 and content2 are locals of the whole loop
try_candidates_large(asn, content1, content2, candidates) ==
    LET RECURSIVE loop(_, _, _)
        loop(i, cont1, cont2) ==
            IF i > Len(candidates) THEN NotSelected
            ELSE LET candidate == candidates[i]
                     bin1 == is_binary(candidate.localdatapart1)
                     bin2 == is_binary(candidate.localdatapart2)
                 IN
                 IF asn # Str(candidate.globaladmin) THEN loop(i + 1, cont1, cont2)
                 ELSE IF (bin1 /\ ~IsDecimal(cont1)) \/ (bin2 /\ ~IsDecimal(cont2))
                 THEN Raised("ValueError")
                 ELSE LET c1 == IF bin1 THEN decimal2bits(cont1, 32) ELSE cont1
                          c2 == IF bin2 THEN decimal2bits(cont2, 32) ELSE cont2
                      IN IF /\ try_candidate_fields(c1, candidate.localdatapart1.fields)
                            /\ try_candidate_fields(c2, candidate.localdatapart2.fields)
                         THEN Selected(i, <<c1, c2>>)
                         ELSE loop(i + 1, c1, c2)
    IN loop(1, content1, content2)

\* the administrator test of _try_candidates_extended: TRUE is `continue`
extended_admin_skip(asn, candidate) ==
    IF "asn" \in DOMAIN candidate THEN asn # Str(candidate.asn)
    ELSE IF "asn4" \in DOMAIN candidate THEN asn # Str(candidate.asn4)
    ELSE TRUE

\* extended_width with the two widths the other way round
extended_width_swapped(candidate) == IF "asn" \in DOMAIN candidate THEN 16 ELSE 32

\* the width of the binary transform in _try_candidates_extended
extended_width(candidate) == IF "asn4" \in DOMAIN candidate THEN 16 ELSE 32

\* _try_candidates_extended: contentstring is set anew for every candidate
try_candidates_extended(extype, exsubtype, asn, content, candidates) ==
    LET RECURSIVE loop(_)
        loop(i) ==
            IF i > Len(candidates) THEN NotSelected
            ELSE LET candidate == candidates[i] IN
                 IF ~IsHex(extype) THEN Raised("ValueError")
                 ELSE IF HexInt(extype) # candidate.type THEN loop(i + 1)
                 ELSE IF ~IsHex(exsubtype) THEN Raised("ValueError")
                 ELSE IF HexInt(exsubtype) # candidate.subtype THEN loop(i + 1)
                 ELSE IF extended_admin_skip(asn, candidate) THEN loop(i + 1)
                 ELSE IF is_binary(candidate.localadmin) /\ ~IsDecimal(content)
                 THEN Raised("ValueError")
                 ELSE LET contentstring ==
                              IF is_binary(candidate.localadmin)
                              THEN decimal2bits(content, extended_width(candidate))
                              ELSE content
                      IN IF try_candidate_fields(contentstring, candidate.localadmin.fields)
                         THEN Selected(i, <<contentstring>>)
                         ELSE loop(i + 1)
    IN loop(1)

(* ------------------------------------------------------------------ *)
(* Renderer.  A returned value is [tag, val]: tag "str" with the       *)
(* string, tag "None", or the name of the exception raised.            *)
(* ------------------------------------------------------------------ *)

None == [tag |-> "None", val |-> <<>>]

Returned(s) == [tag |-> "str", val |-> s]

Raise(e) == [tag |-> e, val |-> <<>>]

\* the attributes among globaladmin, asn, asn4 a candidate has, in that order
admin_attrs(candidate) ==
    SelectSeq(<<"globaladmin", "asn", "asn4">>, LAMBDA a : a \in DOMAIN candidate)

\* one output section: "name=description" or "name=value", joined by ","
print_section(fields, fieldvals, offset) ==
    Join([fid \in 1..Len(fields) |->
             fields[fid].name \o <<"=">> \o
             (IF "description" \in DOMAIN fields[fid]
              THEN fields[fid].description
              ELSE fieldvals[offset + fid])],
         <<",">>)

\* the sections of _print_match
output_sections(candidate, fieldvals) ==
    IF "localadmin" \in DOMAIN candidate
    THEN <<print_section(candidate.localadmin.fields, fieldvals, 0)>>
    ELSE IF "localdatapart1" \in DOMAIN candidate
    THEN <<print_section(candidate.localdatapart1.fields, fieldvals, 0),
           print_section(candidate.localdatapart2.fields, fieldvals,
                         Len(candidate.localdatapart1.fields))>>
    ELSE <<>>

\* _print_match: asn is the last attribute present; unbound when none is
print_match(community, candidate, fieldvals) ==
    LET attrs == admin_attrs(candidate) IN
    IF attrs = <<>> THEN Raise("UnboundLocalError")
    ELSE Returned(Str(candidate[attrs[Len(attrs)]]) \o <<":">>
                  \o Join(output_sections(candidate, fieldvals), <<":">>))

(* ------------------------------------------------------------------ *)
(* The parse entry points, as functions of the candidate list.  An     *)
(* outcome is [ret, found, matched, sliced, fieldvals]: the value      *)
(* returned or the exception raised, the selector's result, the        *)
(* strings extraction sliced and the field values it gave.             *)
(* ------------------------------------------------------------------ *)

Outcome(r, f, m, s, v) ==
    [ret |-> r, found |-> f, matched |-> m, sliced |-> s, fieldvals |-> v]

Failed(e) == Outcome(Raise(e), 0, <<>>, <<>>, <<>>)

Missed == Outcome(None, 0, <<>>, <<>>, <<>>)

\* the rest of a single-part parse once the selector has answered sel:
\* `if found:`, _candidate2fields, _print_match
single_part_result(community, content, candidates, sel) ==
    IF sel.exc # "" THEN Failed(sel.exc)
    ELSE IF sel.found = 0 THEN Missed
    ELSE IF is_binary(candidates[sel.found].localadmin) /\ ~IsDecimal(content)
    THEN Failed("ValueError")
    ELSE Outcome(print_match(community, candidates[sel.found],
                             candidate2fields(content, candidates[sel.found].localadmin)),
                 sel.found, sel.matched,
                 <<candidate2fields_bits(content, candidates[sel.found].localadmin)>>,
                 candidate2fields(content, candidates[sel.found].localadmin))

\* the rest of parse_large_community once the selector has answered sel
large_result(community, content1, content2, candidates, sel) ==
    IF sel.exc # "" THEN Failed(sel.exc)
    ELSE IF sel.found = 0 THEN Missed
    ELSE IF \/ is_binary(candidates[sel.found].localdatapart1) /\ ~IsDecimal(content1)
            \/ is_binary(candidates[sel.found].localdatapart2) /\ ~IsDecimal(content2)
    THEN Failed("ValueError")
    ELSE LET found == candidates[sel.found] IN
         Outcome(print_match(community, found,
                             candidate2fields_large(content1, content2,
                                 found.localdatapart1, found.localdatapart2)),
                 sel.found, sel.matched,
                 <<candidate2fields_large_bits(content1, found.localdatapart1),
                   candidate2fields_large_bits(content2, found.localdatapart2)>>,
                 candidate2fields_large(content1, content2,
                     found.localdatapart1, found.localdatapart2))

\* asn, content = community.split(":", 1), and the rest
regular_parts(community, candidates, parts) ==
    IF Len(parts) # 2 THEN Failed("ValueError")
    ELSE single_part_result(community, parts[2], candidates,
             try_candidates_regular(parts[1], parts[2], candidates))

\* asn, content1, content2 = community.split(":", 2), and the rest
large_parts(community, candidates, parts) ==
    IF Len(parts) # 3 THEN Failed("ValueError")
    ELSE large_result(community, parts[2], parts[3], candidates,
             try_candidates_large(parts[1], parts[2], parts[3], candidates))

\* extype, exsubtype, asn, content = community.split(":", 3), and the rest
extended_parts(community, candidates, parts) ==
    IF Len(parts) # 4 THEN Failed("ValueError")
    ELSE single_part_result(community, parts[4], candidates,
             try_candidates_extended(parts[1], parts[2], parts[3], parts[4], candidates))

\* parse_regular_community
parse_regular_community(community, candidates) ==
    regular_parts(community, candidates, Split(community, 1))

\* parse_large_community
parse_large_community(community, candidates) ==
    large_parts(community, candidates, Split(community, 2))

\* parse_extended_community
parse_extended_community(community, candidates) ==
    extended_parts(community, candidates, Split(community, 3))

\* the three expressions of parse_community
Group(cls) == [cls |-> cls, n |-> 1, many |-> TRUE]

One(c) == [cls |-> {c}, n |-> 1, many |-> FALSE]

OneOf(cls) == [cls |-> cls, n |-> 1, many |-> FALSE]

\* ^\d+:\d+$
re_regular ==
    [caret |-> TRUE, dollar |-> TRUE,
     atoms |-> <<Group(Digit), One(":"), Group(Digit)>>]

\* ^\d+:\d+:\d+$
re_large ==
    [caret |-> TRUE, dollar |-> TRUE,
     atoms |-> <<Group(Digit), One(":"), Group(Digit), One(":"), Group(Digit)>>]

\* ^0x\d\d:0x\d\d:\d+:\d+$
re_extended ==
    [caret |-> TRUE, dollar |-> TRUE,
     atoms |-> <<One("0"), One("x"), OneOf(Digit), OneOf(Digit), One(":"),
                 One("0"), One("x"), OneOf(Digit), OneOf(Digit), One(":"),
                 Group(Digit), One(":"), Group(Digit)>>]

\* the parser parse_community hands the community to
dispatch(community) ==
    IF re_match(re_regular, community) THEN "regular"
    ELSE IF re_match(re_large, community) THEN "large"
    ELSE IF re_match(re_extended, community) THEN "extended"
    ELSE "none"

\* parse_community
parse_community(community, regular, large, extended) ==
    IF re_match(re_regular, community) THEN parse_regular_community(community, regular)
    ELSE IF re_match(re_large, community) THEN parse_large_community(community, large)
    ELSE IF re_match(re_extended, community)
    THEN parse_extended_community(community, extended)
    ELSE Missed

(* ------------------------------------------------------------------ *)
(* The documents the loader may be given and the strings looked up     *)
(* ------------------------------------------------------------------ *)

Rep(cls, k) == [cls |-> cls, n |-> k, many |-> FALSE]

Bit == {"0", "1"}

Pat(atoms) == [caret |-> FALSE, atoms |-> atoms, dollar |-> FALSE]

PatAnchored(atoms) == [caret |-> TRUE, atoms |-> atoms, dollar |-> TRUE]

\* regular: a binary layout with a leading flag bit; the rest is free
RegFlag ==
    [globaladmin |-> 65000,
     localadmin |->
       [format |-> "binary",
        fields |-> <<[name |-> <<"f">>, length |-> 1, pattern |-> Pat(<<One("1")>>)],
                     [name |-> <<"i", "d">>, pattern |-> Pat(<<Group(Digit)>>)]>>]]

\* regular: the literal value 5, rendered by its description
RegFive ==
    [globaladmin |-> 65000,
     localadmin |->
       [fields |-> <<[name |-> <<"a">>, pattern |-> PatAnchored(<<One("5")>>),
                      description |-> <<"b", "h">>]>>]]

\* regular: a binary layout for the values 96..127
RegLow ==
    [globaladmin |-> 65000,
     localadmin |->
       [format |-> "binary",
        fields |-> <<[name |-> <<"h">>, length |-> 9, pattern |-> Pat(<<Rep({"0"}, 9)>>)],
                     [name |-> <<"l">>, length |-> 7,
                      pattern |-> Pat(<<Rep({"1"}, 2), Rep(Bit, 5)>>)]>>]]

\* regular: a decimal layout, one digit of kind and one digit of code
RegKind ==
    [globaladmin |-> 65010,
     localadmin |->
       [fields |-> <<[name |-> <<"k">>, length |-> 1, pattern |-> Pat(<<One("4")>>)],
                     [name |-> <<"c">>, pattern |-> Pat(<<OneOf(Digit)>>)]>>]]

\* regular: a decimal layout whose first digit is 0
RegZero ==
    [globaladmin |-> 65020,
     localadmin |->
       [fields |-> <<[name |-> <<"z">>, length |-> 1, pattern |-> Pat(<<One("0")>>)],
                     [name |-> <<"r">>, length |-> 15, pattern |-> Pat(<<Group(Digit)>>)]>>]]

\* regular: a binary layout that never contains the value 5
RegHigh ==
    [globaladmin |-> 65020,
     localadmin |->
       [format |-> "binary",
        fields |-> <<[name |-> <<"t">>, length |-> 2, pattern |-> Pat(<<Rep({"1"}, 2)>>)],
                     [name |-> <<"v">>, length |-> 14, pattern |-> Pat(<<Rep(Bit, 14)>>)]>>]]

\* large: function 1, part 2 binary with level 6 or 7
LargeLevel ==
    [globaladmin |-> 65000,
     localdatapart1 |-> [fields |-> <<[name |-> <<"f">>, pattern |-> Pat(<<One("1")>>)]>>],
     localdatapart2 |->
       [format |-> "binary",
        fields |-> <<[name |-> <<"z">>, length |-> 29, pattern |-> Pat(<<Rep({"0"}, 29)>>)],
                     [name |-> <<"l">>, length |-> 3,
                      pattern |-> Pat(<<Rep({"1"}, 2), OneOf(Bit)>>)]>>]]

\* large: function 1, the literal value 5
LargeFive ==
    [globaladmin |-> 65000,
     localdatapart1 |-> [fields |-> <<[name |-> <<"f">>, pattern |-> Pat(<<One("1")>>)]>>],
     localdatapart2 |->
       [fields |-> <<[name |-> <<"a">>, pattern |-> PatAnchored(<<One("5")>>),
                      description |-> <<"b", "h">>]>>]]

\* large: any function, part 2 binary with a value in 96..127
LargeLow ==
    [globaladmin |-> 65000,
     localdatapart1 |->
       [format |-> "binary",
        fields |-> <<[name |-> <<"f">>, length |-> 32, pattern |-> Pat(<<Rep(Bit, 32)>>)]>>],
     localdatapart2 |->
       [format |-> "binary",
        fields |-> <<[name |-> <<"h">>, length |-> 25, pattern |-> Pat(<<Rep({"0"}, 25)>>)],
                     [name |-> <<"l">>, length |-> 7,
                      pattern |-> Pat(<<Rep({"1"}, 2), Rep(Bit, 5)>>)]>>]]

\* extended: two-octet AS, decimal local administrator
ExtPlain ==
    [type |-> 0, subtype |-> 2, asn |-> 65000,
     localadmin |-> [fields |-> <<[name |-> <<"v">>, pattern |-> PatAnchored(<<Group(Digit)>>)]>>]]

\* extended: four-octet AS, 16 bits of local administrator with a leading flag
ExtFour ==
    [type |-> 2, subtype |-> 2, asn4 |-> 70000,
     localadmin |->
       [format |-> "binary",
        fields |-> <<[name |-> <<"f">>, length |-> 1, pattern |-> Pat(<<One("1")>>)],
                     [name |-> <<"r">>, length |-> 15, pattern |-> Pat(<<Rep(Bit, 15)>>)]>>]]

\* extended: two-octet AS, 32 bits of local administrator, the upper half zero
ExtTwo ==
    [type |-> 0, subtype |-> 3, asn |-> 65000,
     localadmin |->
       [format |-> "binary",
        fields |-> <<[name |-> <<"h">>, length |-> 16, pattern |-> Pat(<<Rep({"0"}, 16)>>)],
                     [name |-> <<"l">>, length |-> 16, pattern |-> Pat(<<Rep(Bit, 16)>>)]>>]]

\* extended: a candidate with neither asn nor asn4
ExtNoAdmin ==
    [type |-> 0, subtype |-> 2,
     localadmin |-> [fields |-> <<[name |-> <<"v">>, pattern |-> Pat(<<Group(Digit)>>)]>>]]

\* extended: an asn whose numeral needs four octets
ExtWide ==
    [type |-> 2, subtype |-> 2, asn |-> 70000,
     localadmin |-> [fields |-> <<[name |-> <<"v">>, pattern |-> Pat(<<Group(Digit)>>)]>>]]

\* extended: AS_TRANS in asn beside the four-octet asn4
ExtBoth ==
    [type |-> 2, subtype |-> 3, asn |-> 23456, asn4 |-> 70000,
     localadmin |->
       [format |-> "binary",
        fields |-> <<[name |-> <<"w">>, length |-> 16, pattern |-> Pat(<<Rep(Bit, 16)>>)],
                     [name |-> <<"e">>, pattern |-> Pat(<<Group(Bit)>>)]>>]]

\* extended: subtype 0x0b
ExtHex ==
    [type |-> 0, subtype |-> 11, asn |-> 65000,
     localadmin |-> [fields |-> <<[name |-> <<"v">>, pattern |-> Pat(<<Group(Digit)>>)]>>]]

\* The candidate dicts.  A candidate list of the parser holds references to
\* them: here, their names.
Candidate ==
    "RegFlag" :> RegFlag @@ "RegFive" :> RegFive @@ "RegLow" :> RegLow
    @@ "RegKind" :> RegKind @@ "RegZero" :> RegZero @@ "RegHigh" :> RegHigh
    @@ "LargeLevel" :> LargeLevel @@ "LargeFive" :> LargeFive @@ "LargeLow" :> LargeLow
    @@ "ExtPlain" :> ExtPlain @@ "ExtFour" :> ExtFour @@ "ExtTwo" :> ExtTwo
    @@ "ExtNoAdmin" :> ExtNoAdmin @@ "ExtWide" :> ExtWide @@ "ExtBoth" :> ExtBoth
    @@ "ExtHex" :> ExtHex

\* the dicts a list of references stands for
Deref(list) == [i \in 1..Len(list) |-> Candidate[list[i]]]

\* jdata["draft-ietf-grow-yang-bgp-communities:bgp-communities"] of each source
Fetch ==
    "https://a" :> [regular |-> <<"RegFlag", "RegFive">>,
                    large |-> <<"LargeLevel", "LargeFive">>,
                    extended |-> <<"ExtPlain", "ExtFour", "ExtHex">>]
    @@ "https://b" :> [regular |-> <<"RegLow", "RegKind", "RegZero", "RegHigh">>,
                       large |-> <<"LargeLow">>,
                       extended |-> <<"ExtTwo", "ExtNoAdmin", "ExtWide", "ExtBoth">>]
    @@ "https://c" :> [regular |-> <<"RegFive">>,
                       extended |-> <<"ExtPlain">>]

\* source.startswith("http://") or source.startswith("https://")
URLs == DOMAIN Fetch

Sources == URLs \cup {"communities.json"}

Kinds == {"regular", "large", "extended"}

A65000 == <<"6", "5", "0", "0", "0">>

A65001 == <<"6", "5", "0", "0", "1">>

A65010 == <<"6", "5", "0", "1", "0">>

A65020 == <<"6", "5", "0", "2", "0">>

A70000 == <<"7", "0", "0", "0", "0">>

A23456 == <<"2", "3", "4", "5", "6">>

V40000 == <<"4", "0", "0", "0", "0">>

\* a decimal numeral one digit longer than int() converts
VLong == [i \in 1..(MaxStrDigits + 1) |-> "9"]

Hx(a, b) == <<"0", "x", a, b>>

Colon(parts) == Join(parts, <<":">>)

RegularInputs ==
    {Colon(<<A65000, v>>) : v \in {<<"5">>, <<"1", "0", "1">>, V40000, <<"5", NL>>, VLong}}
    \cup {Colon(<<A65001, <<"5">>>>), Colon(<<A65010, <<"4", "2">>>>),
          Colon(<<A65020, <<"5">>>>)}

LargeInputs ==
    {Colon(<<A65000, f, v>>) :
        f \in {<<"1">>, <<"2">>},
        v \in {<<"5">>, <<"6">>, <<"1", "0", "1">>}}
    \cup {Colon(<<A65001, <<"1">>, <<"5">>>>)}

ExtendedInputs ==
    {Colon(<<Hx("0", "0"), Hx("0", "2"), A65000, <<"5">>>>),
     Colon(<<Hx("0", "0"), Hx("0", "3"), A65000, <<"5">>>>),
     Colon(<<Hx("0", "0"), Hx("0", "3"), A65000, V40000>>),
     Colon(<<Hx("0", "0"), Hx("0", "b"), A65000, <<"5">>>>),
     Colon(<<Hx("0", "2"), Hx("0", "2"), A70000, <<"5">>>>),
     Colon(<<Hx("0", "2"), Hx("0", "2"), A70000, V40000>>),
     Colon(<<Hx("0", "2"), Hx("0", "3"), A23456, <<"5">>>>),
     Colon(<<Hx("0", "2"), Hx("0", "3"), A70000, <<"5">>>>)}

OtherInputs ==
    {<<>>, A65000, Colon(<<A65000, <<>>>>), Colon(<<A65000, <<"x">>>>),
     Colon(<<<<"1">>, <<"2">>, <<"3">>, <<"4">>>>),
     Colon(<<<<"0", "x", "0">>, Hx("0", "2"), A65000, <<"5">>>>)}

Inputs == RegularInputs \cup LargeInputs \cup ExtendedInputs \cup OtherInputs

\* what a caller hands to a kind-specific entry point: communities of that
\* kind, and strings of another shape
InputsOf(kind) ==
    CASE kind = "regular" ->
           {Colon(<<A65000, <<"5">>>>), Colon(<<A65000, V40000>>),
            Colon(<<A65020, <<"5">>>>), Colon(<<A65000, <<"1">>, <<"5">>>>),
            Colon(<<A65000, <<"x">>>>), A65000}
      [] kind = "large" ->
           {Colon(<<A65000, <<"1">>, <<"5">>>>), Colon(<<A65000, <<"1">>, <<"6">>>>),
            Colon(<<A65000, <<"1">>, <<"x">>>>), Colon(<<A65000, <<"5">>>>)}
      [] kind = "extended" ->
           {Colon(<<Hx("0", "0"), Hx("0", "3"), A65000, <<"5">>>>),
            Colon(<<Hx("0", "2"), Hx("0", "2"), A70000, V40000>>),
            Colon(<<Hx("0", "0"), Hx("0", "b"), A65000, <<"5">>>>),
            Colon(<<<<"x">>, Hx("0", "2"), A65000, <<"5">>>>),
            Colon(<<A65000, <<"1">>, <<"5">>>>)}

(* ------------------------------------------------------------------ *)
(* The parser object                                                   *)
(* ------------------------------------------------------------------ *)

\* the number of load_source calls of a run
MaxLoads == 2

VARIABLES
    comm_regular,   \* self.comm_regular, as references
    comm_large,     \* self.comm_large, as references
    comm_extended,  \* self.comm_extended, as references
    sources,        \* self.sources
    loaded,         \* every source load_source was called with, in call order
    op,             \* the method called last
    community,      \* its community argument
    ret,            \* what it returned or raised
    found,          \* the position of the candidate the selector returned, or 0
                    \* (these four are empty after a call that selects nothing)
    matched,        \* the strings that candidate's fields were matched on
    sliced,         \* the strings extraction sliced
    fieldvals       \* the field values extraction gave

registry == <<comm_regular, comm_large, comm_extended, sources>>

vars == <<comm_regular, comm_large, comm_extended, sources, loaded,
          op, community, ret, found, matched, sliced, fieldvals>>

\* __init__ without sources
Init ==
    /\ comm_regular = <<>>
    /\ comm_large = <<>>
    /\ comm_extended = <<>>
    /\ sources = <<>>
    /\ loaded = <<>>
    /\ op = "__init__"
    /\ community = <<>>
    /\ ret = None
    /\ found = 0
    /\ matched = <<>>
    /\ sliced = <<>>
    /\ fieldvals = <<>>

\* the kinds load_source appends before it raises or returns: it reads
\* "regular", "large", "extended" in this order and stops at a missing key
appended_kinds(jdata) ==
    IF "regular" \notin DOMAIN jdata THEN {}
    ELSE IF "large" \notin DOMAIN jdata THEN {"regular"}
    ELSE IF "extended" \notin DOMAIN jdata THEN {"regular", "large"}
    ELSE Kinds

\* the list after `self.comm_<kind> += jdata[...][kind]`, when that line is reached
load_kind(list, jdata, kind) ==
    IF kind \in appended_kinds(jdata) THEN list \o jdata[kind] ELSE list

\* load_source: json.load of a str raises; a missing key raises KeyError
\* after the lists before it were extended
LoadSource(source) ==
    /\ Len(loaded) < MaxLoads
    /\ loaded' = Append(loaded, source)
    /\ op' = "load_source"
    /\ community' = <<>>
    /\ found' = 0
    /\ matched' = <<>>
    /\ sliced' = <<>>
    /\ fieldvals' = <<>>
    /\ IF source \notin URLs
       THEN /\ ret' = Raise("AttributeError")
            /\ UNCHANGED registry
       ELSE LET jdata == Fetch[source] IN
            /\ comm_regular' = load_kind(comm_regular, jdata, "regular")
            /\ comm_large' = load_kind(comm_large, jdata, "large")
            /\ comm_extended' = load_kind(comm_extended, jdata, "extended")
            /\ IF appended_kinds(jdata) = Kinds
               THEN sources' = Append(sources, source) /\ ret' = None
               ELSE sources' = sources /\ ret' = Raise("KeyError")

\* a parse call leaves the object alone; its outcome is what the caller sees
Called(name, c, outcome) ==
    /\ op' = name
    /\ community' = c
    /\ ret' = outcome.ret
    /\ found' = outcome.found
    /\ matched' = outcome.matched
    /\ sliced' = outcome.sliced
    /\ fieldvals' = outcome.fieldvals
    /\ UNCHANGED <<registry, loaded>>

ParseCommunity(c) ==
    \E outcome \in {parse_community(c, Deref(comm_regular), Deref(comm_large),
                                     Deref(comm_extended))} :
        Called("parse_community", c, outcome)

ParseRegularCommunity(c) ==
    \E outcome \in {parse_regular_community(c, Deref(comm_regular))} :
        Called("parse_regular_community", c, outcome)

ParseLargeCommunity(c) ==
    \E outcome \in {parse_large_community(c, Deref(comm_large))} :
        Called("parse_large_community", c, outcome)

ParseExtendedCommunity(c) ==
    \E outcome \in {parse_extended_community(c, Deref(comm_extended))} :
        Called("parse_extended_community", c, outcome)

Next ==
    \/ \E source \in Sources : LoadSource(source)
    \/ \E c \in Inputs : ParseCommunity(c)
    \/ \E c \in InputsOf("regular") : ParseRegularCommunity(c)
    \/ \E c \in InputsOf("large") : ParseLargeCommunity(c)
    \/ \E c \in InputsOf("extended") : ParseExtendedCommunity(c)

Spec == Init /\ [][Next]_vars

(* ------------------------------------------------------------------ *)
(* What the last call was about                                        *)
(* ------------------------------------------------------------------ *)

\* the parser that handled the last call, "none" when none did
HandledBy ==
    CASE op = "parse_community" -> dispatch(community)
      [] op = "parse_regular_community" -> "regular"
      [] op = "parse_large_community" -> "large"
      [] op = "parse_extended_community" -> "extended"
      [] OTHER -> "none"

\* the last call returned: it did not raise
Answered == ret.tag \in {"None", "str"}

\* what the last call showed
Observed == Outcome(ret, found, matched, sliced, fieldvals)

\* the least element of a set of positions, 0 for the empty set
FirstIndex(S) == IF S = {} THEN 0 ELSE CHOOSE i \in S : \A j \in S : i <= j

\* content as a part transforms it by itself: binary of the given width if
\* the part declares format "binary", unchanged otherwise
OwnContent(part, content, width) ==
    IF is_binary(part) THEN decimal2bits(content, width) ELSE content

(* ------------------------------------------------------------------ *)
(* C1                                                                  *)
(* ------------------------------------------------------------------ *)

\* the first candidate with the input's global admin whose fields match the
\* content as that candidate itself transforms it
RegularFirstMatch(asn, content, candidates) ==
    FirstIndex({i \in 1..Len(candidates) :
        /\ asn = Str(candidates[i].globaladmin)
        /\ try_candidate_fields(OwnContent(candidates[i].localadmin, content, 16),
                                candidates[i].localadmin.fields)})

\* C1: for an input A:B the Regular parser selects the first candidate in
\* registry order whose globaladmin is A and whose fields match B as that
\* candidate alone transforms it (width-16 binary iff it declares "binary"),
\* and nothing when there is none; earlier candidates have no influence.
C1_RegularFirstMatch ==
    (HandledBy = "regular" /\ re_match(re_regular, community) /\ Answered)
    => found = RegularFirstMatch(Split(community, 1)[1], Split(community, 1)[2],
                                 Deref(comm_regular))

(* ------------------------------------------------------------------ *)
(* C2                                                                  *)
(* ------------------------------------------------------------------ *)

\* the width the claim gives: 16 with asn, 32 with asn4
ClaimedWidth(candidate) == IF "asn" \in DOMAIN candidate THEN 16 ELSE 32

\* the width the amended claim gives: 16 with asn4, 32 with asn alone
AmendedWidth(candidate) == IF "asn4" \in DOMAIN candidate THEN 16 ELSE 32

\* type, subtype and administrator of an input select the candidate
ExtendedEligible(candidate, parts) ==
    /\ HexInt(parts[1]) = candidate.type
    /\ HexInt(parts[2]) = candidate.subtype
    /\ \/ "asn" \in DOMAIN candidate /\ parts[3] = Str(candidate.asn)
       \/ /\ "asn" \notin DOMAIN candidate
          /\ "asn4" \in DOMAIN candidate
          /\ parts[3] = Str(candidate.asn4)

\* the first eligible candidate whose fields match the content transformed
\* with the width W gives it
ExtendedFirstMatch(parts, candidates, W(_)) ==
    FirstIndex({i \in 1..Len(candidates) :
        /\ ExtendedEligible(candidates[i], parts)
        /\ try_candidate_fields(
               OwnContent(candidates[i].localadmin, parts[4], W(candidates[i])),
               candidates[i].localadmin.fields)})

\* the Extended parser answered a well-formed input
ExtendedAnswered ==
    /\ HandledBy = "extended"
    /\ Answered
    /\ Len(Split(community, 3)) = 4
    /\ IsHex(Split(community, 3)[1])
    /\ IsHex(Split(community, 3)[2])
    /\ IsDecimal(Split(community, 3)[4])

\* selection in the Extended parser is first-match on the content as width W
\* transforms it, and the selected candidate's fields were matched on it
ExtendedWidthIs(W(_)) ==
    ExtendedAnswered =>
        /\ found = ExtendedFirstMatch(Split(community, 3), Deref(comm_extended), W)
        /\ found # 0 =>
               matched = <<OwnContent(Deref(comm_extended)[found].localadmin,
                                      Split(community, 3)[4],
                                      W(Deref(comm_extended)[found]))>>

\* C2 as claimed: an Extended candidate's binary content is transformed with
\* width 16 when the candidate declares asn and with width 32 when it
\* declares asn4, before its fields are matched.
C2_WidthAsClaimed == ExtendedWidthIs(ClaimedWidth)

\* C2 amended: an Extended candidate's binary content is transformed with
\* width 16 when the candidate declares asn4 and with width 32 when it
\* declares asn alone, before its fields are matched.
C2_WidthAmended == ExtendedWidthIs(AmendedWidth)

\* C2 witness: a binary candidate declaring asn alone was selected on a
\* 32-character content
C2_Witness ==
    /\ ExtendedAnswered
    /\ found # 0
    /\ is_binary(Deref(comm_extended)[found].localadmin)
    /\ "asn4" \notin DOMAIN Deref(comm_extended)[found]
    /\ Len(matched[1]) = 32

(* ------------------------------------------------------------------ *)
(* C3                                                                  *)
(* ------------------------------------------------------------------ *)

\* the last two load_source calls loaded the same document, both with success
LoadedTwice ==
    /\ Len(loaded) >= 2
    /\ loaded[Len(loaded)] = loaded[Len(loaded) - 1]
    /\ loaded[Len(loaded)] \in URLs
    /\ appended_kinds(Fetch[loaded[Len(loaded)]]) = Kinds

\* a candidate list without the last copy of the document's candidates
WithoutLast(list, kind) ==
    SubSeq(list, 1, Len(list) - Len(Fetch[loaded[Len(loaded)]][kind]))

\* C3: parse(s) after loading a document twice on top of a registry returns
\* what parse(s) returns after loading it once on top of that registry.
C3_DuplicateLoad ==
    (op = "parse_community" /\ LoadedTwice)
    => ret = parse_community(community,
                             Deref(WithoutLast(comm_regular, "regular")),
                             Deref(WithoutLast(comm_large, "large")),
                             Deref(WithoutLast(comm_extended, "extended"))).ret

(* ------------------------------------------------------------------ *)
(* C4                                                                  *)
(* ------------------------------------------------------------------ *)

\* both parts of a candidate match the input's two contents, each as that
\* part of that candidate alone transforms it
LargeBothMatch(candidate, content1, content2) ==
    /\ try_candidate_fields(OwnContent(candidate.localdatapart1, content1, 32),
                            candidate.localdatapart1.fields)
    /\ try_candidate_fields(OwnContent(candidate.localdatapart2, content2, 32),
                            candidate.localdatapart2.fields)

LargeFirstMatch(asn, content1, content2, candidates) ==
    FirstIndex({i \in 1..Len(candidates) :
        /\ asn = Str(candidates[i].globaladmin)
        /\ LargeBothMatch(candidates[i], content1, content2)})

\* C4: the Large parser never returns a candidate one of whose parts fails
\* on the input's content as that part itself transforms it (width 32), and
\* after a candidate that fails it returns the first remaining candidate
\* with the input's global admin whose two parts both match.
C4_LargeBothParts ==
    (HandledBy = "large" /\ re_match(re_large, community) /\ Answered)
    => found = LargeFirstMatch(Split(community, 2)[1], Split(community, 2)[2],
                               Split(community, 2)[3], Deref(comm_large))

(* ------------------------------------------------------------------ *)
(* C5                                                                  *)
(* ------------------------------------------------------------------ *)

\* 0x and two hexadecimal digits, twice, then two decimal groups
re_extended_hex ==
    [caret |-> TRUE, dollar |-> TRUE,
     atoms |-> <<One("0"), One("x"), OneOf(HexDigit), OneOf(HexDigit), One(":"),
                 One("0"), One("x"), OneOf(HexDigit), OneOf(HexDigit), One(":"),
                 Group(Digit), One(":"), Group(Digit)>>]

\* the whole string, and nothing else, has the shape
Exactly(pattern, str) ==
    re_match(pattern, str) /\ \A i \in 1..Len(str) : str[i] # NL

\* C5: parse_community hands an input of two 0x-hexadecimal groups and two
\* decimal groups to the Extended parser, one of exactly two decimal groups
\* to the Regular parser, one of exactly three to the Large parser, and
\* returns NoMatch for every other input.
C5_Classification ==
    op = "parse_community" =>
        Observed =
            (IF Exactly(re_extended_hex, community)
             THEN parse_extended_community(community, Deref(comm_extended))
             ELSE IF Exactly(re_regular, community)
             THEN parse_regular_community(community, Deref(comm_regular))
             ELSE IF Exactly(re_large, community)
             THEN parse_large_community(community, Deref(comm_large))
             ELSE Missed)

(* ------------------------------------------------------------------ *)
(* C6                                                                  *)
(* ------------------------------------------------------------------ *)

\* the value of a decimal numeral
RECURSIVE Num(_)
Num(d) == IF d = <<>> THEN 0 ELSE 10 * Num(SubSeq(d, 1, Len(d) - 1)) + DigitVal[d[Len(d)]]

\* C6: a candidate declaring only asn is never selected for an extended
\* community whose administrator needs 32 bits, and a candidate declaring
\* neither asn nor asn4 is never selected.
C6_AsnWidth ==
    (HandledBy = "extended" /\ found # 0) =>
        /\ {"asn", "asn4"} \cap DOMAIN Deref(comm_extended)[found] # {}
        /\ "asn4" \notin DOMAIN Deref(comm_extended)[found]
               => Num(Split(community, 3)[3]) <= 65535

(* ------------------------------------------------------------------ *)
(* C7                                                                  *)
(* ------------------------------------------------------------------ *)

\* one kind's candidates of the documents of srcs, in order
RECURSIVE ConcatKind(_, _)
ConcatKind(kind, srcs) ==
    IF srcs = <<>> THEN <<>> ELSE Fetch[Head(srcs)][kind] \o ConcatKind(kind, Tail(srcs))

\* C7: after any sequence of calls each candidate list is the concatenation,
\* in load order, of that kind's candidates of the successfully loaded
\* documents, and no parse call changes a candidate list or the sources.
C7_AppendOnly ==
    [][/\ comm_regular' = ConcatKind("regular", sources')
       /\ comm_large' = ConcatKind("large", sources')
       /\ comm_extended' = ConcatKind("extended", sources')
       /\ op' # "load_source" => UNCHANGED registry]_vars

(* ------------------------------------------------------------------ *)
(* C8                                                                  *)
(* ------------------------------------------------------------------ *)

\* C8: parse_community returns a rendered string or NoMatch and never
\* raises; a match yields a string that is not empty, a miss yields NoMatch.
C8_NeverRaises ==
    op = "parse_community" =>
        /\ Answered
        /\ found # 0 => (ret.tag = "str" /\ ret.val # <<>>)
        /\ found = 0 => ret = None

(* ------------------------------------------------------------------ *)
(* C9                                                                  *)
(* ------------------------------------------------------------------ *)

\* the segment the claim gives a field: content[pos : pos+length], or the
\* remainder content[pos:] for a field without length
ClaimedFieldValue(content, pos, cfield) ==
    IF "length" \in DOMAIN cfield
    THEN Slice(content, pos, pos + cfield.length)
    ELSE SliceFrom(content, pos)

\* matching as the claim describes it
ClaimedTryFields(content, cfields) ==
    LET RECURSIVE loop(_, _)
        loop(i, pos) ==
            IF i > Len(cfields) THEN TRUE
            ELSE IF ~re_match(anchored(cfields[i].pattern),
                              ClaimedFieldValue(content, pos, cfields[i]))
            THEN FALSE
            ELSE loop(i + 1, IF "length" \in DOMAIN cfields[i]
                             THEN pos + cfields[i].length ELSE pos)
    IN loop(1, 0)

\* C9: _try_candidate_fields tests a field with length on
\* content[pos : pos+length] and a field without length on the remainder
\* content[pos:], as a full match, and stops at the first failing field.
C9_FieldSlicing ==
    (HandledBy = "regular" /\ re_match(re_regular, community)
     /\ IsDecimal(Split(community, 1)[2]))
    => \A i \in 1..Len(comm_regular) :
           LET part == Deref(comm_regular)[i].localadmin
               content == OwnContent(part, Split(community, 1)[2], 16)
           IN try_candidate_fields(content, part.fields)
              = ClaimedTryFields(content, part.fields)

(* ------------------------------------------------------------------ *)
(* C10                                                                 *)
(* ------------------------------------------------------------------ *)

\* the segments _try_candidate_fields tested the fields of a part on
TestedSegments(content, cfields) ==
    LET RECURSIVE loop(_, _)
        loop(i, pos) ==
            IF i > Len(cfields) THEN <<>>
            ELSE <<field_value(content, pos, cfields[i])>>
                 \o loop(i + 1, field_next_pos(pos, cfields[i]))
    IN loop(1, 0)

\* the local parts of the selected candidate
SelectedParts ==
    LET lists == [regular |-> comm_regular, large |-> comm_large,
                  extended |-> comm_extended]
        candidate == Candidate[lists[HandledBy][found]]
    IN IF HandledBy = "large"
       THEN <<candidate.localdatapart1, candidate.localdatapart2>>
       ELSE <<candidate.localadmin>>

\* the fields of the selected candidate, and the segments they were matched on
SelectedFields ==
    IF Len(SelectedParts) = 2
    THEN SelectedParts[1].fields \o SelectedParts[2].fields
    ELSE SelectedParts[1].fields

SelectedSegments ==
    IF Len(SelectedParts) = 2
    THEN TestedSegments(matched[1], SelectedParts[1].fields)
         \o TestedSegments(matched[2], SelectedParts[2].fields)
    ELSE TestedSegments(matched[1], SelectedParts[1].fields)

\* C10: when a parser returns a rendered string, the string extraction
\* slices is the string the selected candidate's fields were matched on, and
\* the value of every field without description is the segment that passed
\* that field's pattern.
C10_MatchExtract ==
    ret.tag = "str" =>
        /\ sliced = matched
        /\ \A fid \in 1..Len(SelectedFields) :
               "description" \notin DOMAIN SelectedFields[fid]
                   => fieldvals[fid] = SelectedSegments[fid]

=============================================================================
